---- MODULE Spec2Model ----
(***************************************************************************)
(* flyer2cal: the event-normalization pipeline.                            *)
(*                                                                         *)
(*   src/archive/appv3_gpt.py              the richer pipeline             *)
(*   src/app.py                            the web pipeline                *)
(*   src/Mobile_Claude/mobile_backend_api.py   the mobile pipeline         *)
(*                                                                         *)
(* Every operation of the pipeline is a synchronous call.  The state is    *)
(* the clock the calls read (datetime.now()) and the call that is being    *)
(* observed: its name, its argument, the candidate list it handed to the   *)
(* normalizer (if it did) and its outcome (a returned value or the         *)
(* exception that left the function).                                      *)
(***************************************************************************)
EXTENDS Integers, Sequences, FiniteSets, TLC

VARIABLES now, op, arg, handed, ret

vars == <<now, op, arg, handed, ret>>

(***************************************************************************)
(* Bounds of the model.                                                    *)
(***************************************************************************)
\* longest candidate list handed to the normalizer
MaxEvents == 2
\* longest event list embedded in a model response text
MaxPayload == 2
\* longest event list posted to /events/format-for-calendar
MaxBatch == 2
\* longest event list given to the grouping and to the calendar builders
MaxList == 3
\* longest text given to slugify, the example of the slugging rule aside
MaxText == 3
\* most documents in one upload
MaxDocs == 3
\* most requests of one client to /extract-events
MaxRequests == 4

(***************************************************************************)
(* Outcomes of a call.                                                     *)
(***************************************************************************)
Ok(v) == [ok |-> TRUE, v |-> v]

Raise(e) == [ok |-> FALSE, exc |-> e]

\* no list was handed to the normalizer
NoneHanded == Raise("None")

(***************************************************************************)
(* datetime: naive timestamps at second resolution, on the real calendar.  *)
(***************************************************************************)
DT(y, mo, d, h, mi, s) ==
    [year |-> y, month |-> mo, day |-> d, hour |-> h, minute |-> mi, second |-> s]

IsLeap(y) == (y % 4 = 0 /\ y % 100 # 0) \/ y % 400 = 0

DaysInMonth(y, mo) ==
    IF mo = 2 THEN (IF IsLeap(y) THEN 29 ELSE 28)
    ELSE IF mo \in {4, 6, 9, 11} THEN 30 ELSE 31

\* the day after dt's day, same time of day
NextDay(dt) ==
    IF dt.day < DaysInMonth(dt.year, dt.month) THEN [dt EXCEPT !.day = dt.day + 1]
    ELSE IF dt.month < 12 THEN [dt EXCEPT !.day = 1, !.month = dt.month + 1]
    ELSE [dt EXCEPT !.day = 1, !.month = 1, !.year = dt.year + 1]

\* dt + timedelta(hours=n), for 0 <= n < 24
AddHours(dt, n) ==
    IF dt.hour + n < 24 THEN [dt EXCEPT !.hour = dt.hour + n]
    ELSE [NextDay(dt) EXCEPT !.hour = dt.hour + n - 24]

\* the order of timestamps: by day, then by second of the day
DayKey(dt) == (dt.year * 12 + dt.month) * 31 + dt.day

SecondKey(dt) == (dt.hour * 60 + dt.minute) * 60 + dt.second

\* a > b
Later(a, b) ==
    \/ DayKey(a) > DayKey(b)
    \/ DayKey(a) = DayKey(b) /\ SecondKey(a) > SecondKey(b)

(***************************************************************************)
(* Texts that are read as dates and times.  A text is described by the     *)
(* tokens dateutil sees in it:                                             *)
(*   iso      "2025-09-20T10:00:00"                                        *)
(*   date     "2025-09-20"                                                 *)
(*   clock    "7:30 PM", "10:30:45"                                        *)
(*   badclock "25:00"          (an hour that is out of range)              *)
(*   words    "TBD", "late"    (no date or time token at all)              *)
(*   huge     "99999999999999999999999"                                    *)
(*   empty    ""                                                           *)
(***************************************************************************)
Iso(dt) ==
    [k |-> "iso", year |-> dt.year, month |-> dt.month, day |-> dt.day,
     hour |-> dt.hour, minute |-> dt.minute, second |-> dt.second]

DateOnly(y, mo, d) == [k |-> "date", year |-> y, month |-> mo, day |-> d]

Clock(h, mi, s) == [k |-> "clock", hour |-> h, minute |-> mi, second |-> s]

BadClock == [k |-> "badclock"]

Words == [k |-> "words"]

Huge == [k |-> "huge"]

EmptyText == [k |-> "empty"]

\* dt.strftime("%Y-%m-%dT%H:%M:%S") and, at second resolution, dt.isoformat()
Strftime(dt) == Iso(dt)

\* dateutil.parser.parse(text) without fuzzy; the default for the fields the
\* text lacks is today at midnight
ParseText(x, today) ==
    CASE x.k = "iso" ->
            IF x.day <= DaysInMonth(x.year, x.month)
            THEN Ok(DT(x.year, x.month, x.day, x.hour, x.minute, x.second))
            ELSE Raise("ParserError")
      [] x.k = "date" ->
            IF x.day <= DaysInMonth(x.year, x.month)
            THEN Ok(DT(x.year, x.month, x.day, 0, 0, 0))
            ELSE Raise("ParserError")
      [] x.k = "clock" ->
            Ok(DT(today.year, today.month, today.day, x.hour, x.minute, x.second))
      [] x.k = "huge" -> Raise("OverflowError")
      [] OTHER -> Raise("ParserError")

(***************************************************************************)
(* JSON values, as json.loads builds them.                                 *)
(*   null, strings (plain text as a sequence of characters, or a text that *)
(*   is read as a date), numbers, lists and objects.  An object maps each  *)
(*   event key to a value or to Absent.                                    *)
(***************************************************************************)
Null == [t |-> "null"]

Absent == [t |-> "absent"]

Str(s) == [t |-> "str", s |-> s]

TimeStr(x) == [t |-> "time", x |-> x]

Num(n) == [t |-> "num", n |-> n]

List(l) == [t |-> "list", l |-> l]

Keys == {"title", "date", "start_time", "end_time", "location", "description", "events"}

Obj(title, start, end, loc, desc) ==
    [t |-> "obj",
     f |-> [key \in Keys |->
              CASE key = "title" -> title
                [] key = "start_time" -> start
                [] key = "end_time" -> end
                [] key = "location" -> loc
                [] key = "description" -> desc
                [] OTHER -> Absent]]

EmptyObj == [t |-> "obj", f |-> [key \in Keys |-> Absent]]

\* Python truth value of a JSON value
Truthy(v) ==
    CASE v.t = "null" -> FALSE
      [] v.t = "absent" -> FALSE
      [] v.t = "str" -> v.s # <<>>
      [] v.t = "time" -> v.x.k # "empty"
      [] v.t = "num" -> v.n # 0
      [] v.t = "list" -> v.l # <<>>
      [] v.t = "obj" -> \E key \in Keys : v.f[key] # Absent

\* dict.get(key): None for a key the dict lacks
Get(ev, key) == IF ev.f[key] = Absent THEN Null ELSE ev.f[key]

\* a or b
OrElse(a, b) == IF Truthy(a) THEN a ELSE b

IsSpace(c) == c = " "

RECURSIVE LStrip(_)
LStrip(s) == IF s # <<>> /\ IsSpace(Head(s)) THEN LStrip(Tail(s)) ELSE s

RECURSIVE RStrip(_)
RStrip(s) ==
    IF s # <<>> /\ IsSpace(s[Len(s)]) THEN RStrip(SubSeq(s, 1, Len(s) - 1)) ELSE s

\* str.strip()
Strip(s) == RStrip(LStrip(s))

\* the decimal digits of a small number
Digit(n) == CASE n = 0 -> "0" [] n = 1 -> "1" [] n = 2 -> "2" [] n = 3 -> "3"
              [] n = 4 -> "4" [] n = 5 -> "5" [] n = 6 -> "6" [] n = 7 -> "7"
              [] n = 8 -> "8" [] OTHER -> "9"

\* str(v).strip() of a value, as plain text
StrStrip(v) ==
    CASE v.t = "str" -> Strip(v.s)
      [] v.t = "num" -> <<Digit(v.n)>>
      [] v.t = "list" -> <<"[", "]">>
      [] OTHER -> <<"?">>

UntitledEvent == <<"U", "n", "t", "i", "t", "l", "e", "d", " ", "E", "v", "e", "n", "t">>

\* date_parser(str(v)): str() of a number 1..9 is a day of the current month,
\* str() of a list or of plain text holds no date
ParseStrOf(v, today) ==
    CASE v.t = "time" -> ParseText(v.x, today)
      [] v.t = "num" ->
            IF v.n >= 1 /\ v.n <= DaysInMonth(today.year, today.month)
            THEN Ok(DT(today.year, today.month, v.n, 0, 0, 0))
            ELSE Raise("ParserError")
      [] OTHER -> Raise("ParserError")

\* date_parser(v): a value that is not a string is a TypeError
DateParser(v, today) ==
    CASE v.t = "time" -> ParseText(v.x, today)
      [] v.t = "str" -> Raise("ParserError")
      [] OTHER -> Raise("TypeError")

(***************************************************************************)
(* _normalize_and_validate_events (src/archive/appv3_gpt.py).              *)
(***************************************************************************)
\* hours added to the start when the end is missing: timedelta(hours=2)
DefaultHoursRich == 2

\* the title of a normalized event
NormTitle(ev) == StrStrip(OrElse(Get(ev, "title"), Str(UntitledEvent)))

\* NormStart with the softening the source comments on: a start that does not
\* parse becomes today at 9am and the event is kept
NormStart_DefaultsToNine(ev, today) ==
    LET start_raw == Get(ev, "start_time")
        r == IF Truthy(start_raw) THEN ParseStrOf(start_raw, today) ELSE Raise("None")
    IN  IF r.ok THEN r ELSE Ok([today EXCEPT !.hour = 9, !.minute = 0, !.second = 0])

\* start_dt: the parsed start_time, or None (not ok)
NormStart(ev, today) ==
    LET start_raw == Get(ev, "start_time")
    IN  IF Truthy(start_raw)
        THEN LET r == ParseStrOf(start_raw, today)
             IN  IF r.ok THEN r ELSE Raise("None")
        ELSE Raise("None")

\* end_dt: the parsed end_time, or the start plus two hours
NormEnd(ev, start_dt, today) ==
    LET end_raw == Get(ev, "end_time")
        r == IF Truthy(end_raw) THEN ParseStrOf(end_raw, today) ELSE Raise("None")
    IN  IF r.ok THEN r.v ELSE AddHours(start_dt, DefaultHoursRich)

\* str(ev.get(key) or "").strip()
NormText(ev, key) == StrStrip(OrElse(Get(ev, key), Str(<<>>)))

\* one pass of the loop body: the records appended for one candidate, or the
\* exception that leaves the function (ev.get on a value that is not a dict)
NormalizeOne(ev0, today) ==
    LET ev == IF Truthy(ev0) THEN ev0 ELSE EmptyObj
    IN  IF ev.t # "obj" THEN Raise("AttributeError")
        ELSE LET start == NormStart(ev, today)
             IN  IF ~start.ok THEN Ok(<<>>)
                 ELSE Ok(<<[title |-> NormTitle(ev),
                            start_time |-> Strftime(start.v),
                            end_time |-> Strftime(NormEnd(ev, start.v, today)),
                            location |-> NormText(ev, "location"),
                            description |-> NormText(ev, "description")]>>)

RECURSIVE NormalizeFrom(_, _, _)

\* NormalizeFrom with normalized.insert(0, ...) in place of normalized.append
NormalizeFrom_Prepends(events, normalized, today) ==
    IF events = <<>> THEN Ok(normalized)
    ELSE LET r == NormalizeOne(Head(events), today)
         IN  IF r.ok THEN NormalizeFrom(Tail(events), r.v \o normalized, today)
             ELSE r

\* the loop over the candidates, normalized being the list built so far
NormalizeFrom(events, normalized, today) ==
    IF events = <<>> THEN Ok(normalized)
    ELSE LET r == NormalizeOne(Head(events), today)
         IN  IF r.ok THEN NormalizeFrom(Tail(events), normalized \o r.v, today)
             ELSE r

\* _normalize_and_validate_events(events)
NormalizeAndValidateEvents(events, today) == NormalizeFrom(events, <<>>, today)

(***************************************************************************)
(* The text of a model response, as a sequence of tokens:                  *)
(*   W           a run of prose without brackets                           *)
(*   LB RB       { }                                                       *)
(*   LSB RSB     [ ]                                                       *)
(*   COMMA       ,                                                         *)
(*   EVENTS      "events":                                                 *)
(*   Fields(f)   the members "title": ..., "start_time": ... of one event  *)
(*   Scalar(v)   a JSON null, number or string                             *)
(***************************************************************************)
W == [c |-> "w"]

LB == [c |-> "{"]

RB == [c |-> "}"]

LSB == [c |-> "["]

RSB == [c |-> "]"]

COMMA == [c |-> ","]

EVENTS == [c |-> "events:"]

Fields(f) == [c |-> "fields", f |-> f]

Scalar(v) == [c |-> "scalar", v |-> v]

\* positions of a token in a text
Positions(text, tok) == {i \in 1..Len(text) : text[i] = tok}

Min(S) == CHOOSE x \in S : \A y \in S : x <= y

Max(S) == CHOOSE x \in S : \A y \in S : x >= y

\* ReSearch with the lazy ".*?": to the first closing bracket behind the opening one
ReSearch_Lazy(text, open, close) ==
    LET opens == {i \in Positions(text, open) :
                    \E j \in Positions(text, close) : j > i}
    IN  IF opens = {} THEN Raise("None")
        ELSE Ok(SubSeq(text, Min(opens),
                       Min({j \in Positions(text, close) : j > Min(opens)})))

\* re.search(open + ".*" + close, text, re.DOTALL): from the first opening
\* bracket that has a closing bracket after it to the last closing bracket
ReSearch(text, open, close) ==
    LET opens == {i \in Positions(text, open) :
                    \E j \in Positions(text, close) : j > i}
    IN  IF opens = {} THEN Raise("None")
        ELSE Ok(SubSeq(text, Min(opens), Max(Positions(text, close))))

\* _extract_json_block(text)
ExtractJsonBlock(text) == ReSearch(text, LB, RB)

\* the members of b written over the members of a
Merge(a, b) == [key \in Keys |-> IF b[key] # Absent THEN b[key] ELSE a[key]]

NoFields == [key \in Keys |-> Absent]

ParseFail == [ok |-> FALSE, v |-> Null, i |-> 0]

ParseOk(v, i) == [ok |-> TRUE, v |-> v, i |-> i]

RECURSIVE ParseValue(_, _), ParseElements(_, _, _), ParseMembers(_, _, _)

\* a JSON value that starts at token i
ParseValue(toks, i) ==
    IF i > Len(toks) THEN ParseFail
    ELSE CASE toks[i].c = "scalar" -> ParseOk(toks[i].v, i + 1)
           [] toks[i].c = "[" ->
                IF i + 1 <= Len(toks) /\ toks[i + 1] = RSB
                THEN ParseOk(List(<<>>), i + 2)
                ELSE ParseElements(toks, i + 1, <<>>)
           [] toks[i].c = "{" ->
                IF i + 1 <= Len(toks) /\ toks[i + 1] = RB
                THEN ParseOk([t |-> "obj", f |-> NoFields], i + 2)
                ELSE ParseMembers(toks, i + 1, NoFields)
           [] OTHER -> ParseFail

\* the elements of an array and its closing bracket, from token i
ParseElements(toks, i, acc) ==
    LET r == ParseValue(toks, i)
    IN  IF ~r.ok \/ r.i > Len(toks) THEN ParseFail
        ELSE IF toks[r.i] = RSB THEN ParseOk(List(Append(acc, r.v)), r.i + 1)
        ELSE IF toks[r.i] = COMMA THEN ParseElements(toks, r.i + 1, Append(acc, r.v))
        ELSE ParseFail

\* the members of an object and its closing bracket, from token i
ParseMembers(toks, i, acc) ==
    IF i > Len(toks) THEN ParseFail
    ELSE LET r == CASE toks[i].c = "fields" -> ParseOk(Merge(acc, toks[i].f), i + 1)
                     [] toks[i].c = "events:" ->
                          LET e == ParseValue(toks, i + 1)
                          IN  IF e.ok
                              THEN ParseOk([acc EXCEPT !["events"] = e.v], e.i)
                              ELSE ParseFail
                     [] OTHER -> ParseFail
         IN  IF ~r.ok \/ r.i > Len(toks) THEN ParseFail
             ELSE IF toks[r.i] = RB THEN ParseOk([t |-> "obj", f |-> r.v], r.i + 1)
             ELSE IF toks[r.i] = COMMA THEN ParseMembers(toks, r.i + 1, r.v)
             ELSE ParseFail

\* json.loads(text)
JsonLoads(toks) ==
    LET r == ParseValue(toks, 1)
    IN  IF r.ok /\ r.i = Len(toks) + 1 THEN Ok(r.v) ELSE Raise("JSONDecodeError")

(***************************************************************************)
(* get_events_from_flyer (src/archive/appv3_gpt.py), from the response of  *)
(* the model call on: resp is the text of the response, or the exception   *)
(* the call raised.                                                        *)
(***************************************************************************)
\* the shape of the payload: the list handed to the normalizer
SelectEvents(data) ==
    IF data.t = "obj" /\ data.f["events"] # Absent /\ data.f["events"].t = "list"
    THEN data.f["events"].l
    ELSE IF data.t = "obj" THEN <<data>>
    ELSE IF data.t = "list" THEN data.l
    ELSE <<>>

\* the list get_events_from_flyer hands to the normalizer, if it gets there
FlyerHanded(resp) ==
    IF ~resp.ok THEN NoneHanded
    ELSE LET json_block == ExtractJsonBlock(resp.v)
         IN  IF ~json_block.ok THEN NoneHanded
             ELSE LET data == JsonLoads(json_block.v)
                  IN  IF ~data.ok THEN NoneHanded ELSE Ok(SelectEvents(data.v))

\* get_events_from_flyer: every exception is caught and becomes []
GetEventsFromFlyer(resp, today) ==
    LET h == FlyerHanded(resp)
    IN  IF ~h.ok THEN Ok(<<>>)
        ELSE LET r == NormalizeAndValidateEvents(h.v, today)
             IN  IF r.ok THEN r ELSE Ok(<<>>)

(***************************************************************************)
(* get_anthropic_response_for_multiple_events (src/app.py).                *)
(***************************************************************************)
GetAnthropicResponseForMultipleEvents(resp) ==
    IF ~resp.ok THEN Ok(<<>>)
    ELSE LET json_match == ReSearch(resp.v, LSB, RSB)
         IN  IF ~json_match.ok THEN Ok(<<>>)
             ELSE LET events_list == JsonLoads(json_match.v)
                  IN  IF ~events_list.ok THEN Ok(<<>>)
                      ELSE IF /\ events_list.v.t = "list"
                              /\ \A n \in 1..Len(events_list.v.l) :
                                    events_list.v.l[n].t = "obj"
                           THEN Ok(events_list.v.l)
                           ELSE Ok(<<>>)

(***************************************************************************)
(* create_ics_file (src/app.py): the begin and the end given to the        *)
(* calendar event, or the exception that leaves the function.              *)
(***************************************************************************)
\* date_parser(event_data[key]): KeyError for a key the dict lacks
ParseField(event_data, key, today) ==
    IF event_data.f[key] = Absent THEN Raise("KeyError")
    ELSE DateParser(event_data.f[key], today)

\* except (ValueError, KeyError, TypeError); ParserError is a ValueError
CaughtByIcsFile(r) == r.exc \in {"ParserError", "KeyError", "TypeError"}

\* datetime.now().replace(hour=9, minute=0, second=0, microsecond=0)
NineToday(today) == [today EXCEPT !.hour = 9, !.minute = 0, !.second = 0]

\* e.begin = begin; e.end = end on a new Event: the end setter of the ics
\* library raises ValueError for an end before the begin
SetBeginEnd(begin, end) ==
    IF Later(begin, end) THEN Raise("ValueError") ELSE Ok(<<begin, end>>)

CreateIcsFile(event_data, today) ==
    LET b == ParseField(event_data, "start_time", today)
        e == ParseField(event_data, "end_time", today)
    IN  IF ~b.ok /\ ~CaughtByIcsFile(b) THEN Raise(b.exc)
        ELSE LET begin_dt == IF b.ok THEN b.v ELSE NineToday(today)
                 end_dt == IF e.ok THEN e.v ELSE AddHours(begin_dt, 2)
                 t == SetBeginEnd(begin_dt, end_dt)
             IN  IF ~e.ok /\ ~CaughtByIcsFile(e) THEN Raise(e.exc)
                 ELSE IF ~t.ok THEN t
                 ELSE Ok([name |-> IF event_data.f["title"] = Absent
                                   THEN Str(UntitledEvent)
                                   ELSE event_data.f["title"],
                          begin |-> begin_dt,
                          end |-> end_dt])

(***************************************************************************)
(* The mobile pipeline (src/Mobile_Claude/mobile_backend_api.py).          *)
(*                                                                         *)
(* The date of an Event is free text.  It is described by what it holds:   *)
(*   md     <<month, day>> ("September 5"), or <<>>                        *)
(*   num    a run of four digits ("2024", "1204"), or 0                    *)
(*   year   whether that run is written as the year or as something else   *)
(*          ("Room 1204"); no code can see this                            *)
(*   clock  <<hour, minute, second>> ("10:30:45"), or <<>>                 *)
(*   words  whether other words surround the tokens                        *)
(***************************************************************************)
Free(md, num, year, clock, words) ==
    [k |-> "free", md |-> md, num |-> num, year |-> year, clock |-> clock,
     words |-> words]

\* re.search(r'\d{4}', date_str)
HasFourDigits(date_str) == date_str.num >= 1000

\* date_parser(date_str [+ " " + current_year], fuzzy=True): the last number
\* is the year; the month and the day the text lacks are today's, the day cut
\* to the length of the month
FuzzyDate(date_str, appended, today) ==
    LET y == IF date_str.num # 0 THEN date_str.num ELSE appended
        mo == IF date_str.md # <<>> THEN date_str.md[1] ELSE today.month
        d == IF date_str.md # <<>> THEN date_str.md[2]
             ELSE IF today.day > DaysInMonth(y, mo) THEN DaysInMonth(y, mo)
             ELSE today.day
        c == IF date_str.clock # <<>> THEN date_str.clock ELSE <<0, 0, 0>>
    IN  IF d > DaysInMonth(y, mo) THEN Raise("ParserError")
        ELSE Ok(DT(y, mo, d, c[1], c[2], c[3]))

\* date_parser(event_date.strftime('%Y-%m-%d') + " " + time_text, fuzzy=True)
FuzzyDateTime(event_date, x) ==
    CASE x.k = "clock" ->
            Ok(DT(event_date.year, event_date.month, event_date.day,
                  x.hour, x.minute, x.second))
      [] x.k = "words" ->
            Ok(DT(event_date.year, event_date.month, event_date.day, 0, 0, 0))
      [] x.k = "badclock" -> Raise("ParserError")

\* hours added to the start when the end is missing: timedelta(hours=1)
DefaultHoursMobile == 1

\* event_date.replace(hour=9, minute=0)
NineOClock(event_date) == [event_date EXCEPT !.hour = 9, !.minute = 0]

\* start_datetime of parse_event_datetime
MobileStart(event, event_date) ==
    IF Truthy(event.start_time)
    THEN LET r == FuzzyDateTime(event_date, event.start_time.x)
         IN  IF r.ok THEN r.v ELSE NineOClock(event_date)
    ELSE NineOClock(event_date)

\* end_datetime of parse_event_datetime
MobileEnd(event, event_date, start_datetime) ==
    IF Truthy(event.end_time)
    THEN LET r == FuzzyDateTime(event_date, event.end_time.x)
         IN  IF r.ok THEN r.v ELSE AddHours(start_datetime, DefaultHoursMobile)
    ELSE AddHours(start_datetime, DefaultHoursMobile)

\* the year put behind the date text, 0 for none
AppendedYear(date_str, today) == IF HasFourDigits(date_str) THEN 0 ELSE today.year

\* event_date of parse_event_datetime
MobileDate(event, today) ==
    FuzzyDate(event.date.x, AppendedYear(event.date.x, today), today)

\* the try block of parse_event_datetime: (start, end) as ISO texts, or the
\* exception of the date parse
TryParseEventDatetime(event, today) ==
    LET event_date == MobileDate(event, today)
    IN  IF event_date.ok
        THEN LET start_datetime == MobileStart(event, event_date.v)
             IN  Ok(<<Strftime(start_datetime),
                      Strftime(MobileEnd(event, event_date.v, start_datetime))>>)
        ELSE event_date

\* parse_event_datetime without its outer except: the exception of the date
\* parse leaves the function
ParseEventDatetime_NoCatch(event, today) == TryParseEventDatetime(event, today)

\* parse_event_datetime(event): except Exception gives (now, now + 1 hour)
ParseEventDatetime(event, today) ==
    LET r == TryParseEventDatetime(event, today)
    IN  IF r.ok THEN r
        ELSE Ok(<<Strftime(today), Strftime(AddHours(today, DefaultHoursMobile))>>)

\* the CalendarEvent built from one Event and its (start, end)
CalendarEventOf(event, p) ==
    [title |-> event.title, start_datetime |-> p[1], end_datetime |-> p[2],
     location |-> event.location, description |-> event.description]

\* format_for_calendar(events): an exception of parse_event_datetime would
\* leave the endpoint
RECURSIVE FormatFrom(_, _, _)
FormatFrom(events, calendar_events, today) ==
    IF events = <<>> THEN Ok(calendar_events)
    ELSE LET p == ParseEventDatetime(Head(events), today)
         IN  IF p.ok
             THEN FormatFrom(Tail(events),
                             Append(calendar_events, CalendarEventOf(Head(events), p.v)),
                             today)
             ELSE p

FormatForCalendar(events, today) == FormatFrom(events, <<>>, today)

\* the fields Event(**event) validates: a string where a string is required
IsString(v) == v.t \in {"str", "time"}

ValidEvent(v) ==
    /\ v.t = "obj"
    /\ IsString(v.f["title"])
    /\ IsString(v.f["date"])
    /\ v.f["start_time"] = Absent \/ v.f["start_time"] = Null \/ IsString(v.f["start_time"])
    /\ v.f["end_time"] = Absent \/ v.f["end_time"] = Null \/ IsString(v.f["end_time"])
    /\ v.f["location"] = Absent \/ IsString(v.f["location"])
    /\ v.f["description"] = Absent \/ IsString(v.f["description"])

\* Event(**event)
EventOf(v) ==
    [title |-> v.f["title"], date |-> v.f["date"],
     start_time |-> Get(v, "start_time"), end_time |-> Get(v, "end_time"),
     location |-> IF v.f["location"] = Absent THEN Str(<<>>) ELSE v.f["location"],
     description |-> IF v.f["description"] = Absent THEN Str(<<>>)
                     ELSE v.f["description"]]

\* [Event(**event) for event in events] over the value of data.get("events", [])
EventsOf(events) ==
    CASE events.t = "absent" -> Ok(<<>>)
      [] events.t = "list" ->
            IF \A n \in 1..Len(events.l) : ValidEvent(events.l[n])
            THEN Ok([n \in 1..Len(events.l) |-> EventOf(events.l[n])])
            ELSE Raise("HTTPException 500")
      [] events.t \in {"str", "time", "obj"} ->
            IF Truthy(events) THEN Raise("HTTPException 500") ELSE Ok(<<>>)
      [] OTHER -> Raise("HTTPException 500")

\* extract_events_from_image: every exception becomes an HTTPException(500)
ExtractEventsFromImage(resp) ==
    IF ~resp.ok THEN Raise("HTTPException 500")
    ELSE LET json_match == ReSearch(resp.v, LB, RB)
         IN  IF ~json_match.ok THEN Ok(<<>>)
             ELSE LET data == JsonLoads(json_match.v)
                  IN  IF ~data.ok THEN Raise("HTTPException 500")
                      ELSE EventsOf(data.v.f["events"])

(***************************************************************************)
(* Calendar files (src/archive/appv3_gpt.py).  An event of the ics library *)
(* is described by its name, begin and end; a calendar by the events added *)
(* to it, in the order of the add calls.                                   *)
(***************************************************************************)
\* the two assignments in the try block: the parsed start and end, or the
\* exception of the first statement that fails
ParsedBeginEnd(ev, today) ==
    LET b == ParseField(ev, "start_time", today)
        e == ParseField(ev, "end_time", today)
    IN  IF ~b.ok THEN b
        ELSE IF ~e.ok THEN e
        ELSE SetBeginEnd(b.v, e.v)

\* event_data.get('title', 'Untitled Event')
NameOf(ev) == IF ev.f["title"] = Absent THEN Str(UntitledEvent) ELSE ev.f["title"]

\* create_ics_for_event: the event of the file; now..now+2h when the times
\* could not be set
CreateIcsForEvent(event_data, today) ==
    LET t == ParsedBeginEnd(event_data, today)
    IN  [name |-> NameOf(event_data),
         begin |-> IF t.ok THEN t.v[1] ELSE today,
         end |-> IF t.ok THEN t.v[2] ELSE AddHours(today, 2)]

RECURSIVE ManyFrom(_, _, _)

\* ManyFrom with break in place of continue
ManyFrom_Breaks(events, c, today) ==
    IF events = <<>> THEN c
    ELSE LET ev == Head(events)
             t == ParsedBeginEnd(ev, today)
         IN  IF ~t.ok THEN c
             ELSE ManyFrom(Tail(events),
                           Append(c, [name |-> NameOf(ev), begin |-> t.v[1],
                                      end |-> t.v[2]]), today)

\* the loop of create_ics_for_many, c being the events added so far
ManyFrom(events, c, today) ==
    IF events = <<>> THEN c
    ELSE LET ev == Head(events)
             t == ParsedBeginEnd(ev, today)
         IN  IF ~t.ok THEN ManyFrom(Tail(events), c, today)
             ELSE ManyFrom(Tail(events),
                           Append(c, [name |-> NameOf(ev), begin |-> t.v[1],
                                      end |-> t.v[2]]), today)

\* create_ics_for_many(events)
CreateIcsForMany(events, today) == Ok(ManyFrom(events, <<>>, today))

(***************************************************************************)
(* slugify (src/archive/appv3_gpt.py and src/app.py), on a text as a       *)
(* sequence of characters.                                                 *)
(***************************************************************************)
UpperCase ==
    <<"A", "B", "C", "D", "E", "F", "G", "H", "I", "J", "K", "L", "M",
      "N", "O", "P", "Q", "R", "S", "T", "U", "V", "W", "X", "Y", "Z">>

LowerCase ==
    <<"a", "b", "c", "d", "e", "f", "g", "h", "i", "j", "k", "l", "m",
      "n", "o", "p", "q", "r", "s", "t", "u", "v", "w", "x", "y", "z">>

\* a character of \w: a letter, a digit or the underscore
IsWord(c) ==
    \/ \E n \in 1..26 : c = UpperCase[n] \/ c = LowerCase[n]
    \/ \E n \in 0..9 : c = Digit(n)
    \/ c = "_"

\* a character of [-\s]
IsSep(c) == c = "-" \/ IsSpace(c)

\* re.sub(r'[^\w\s-]', '', text)
RemoveOthers(text) == SelectSeq(text, LAMBDA c : IsWord(c) \/ IsSep(c))

\* str.lower() of one character
ToLower(c) ==
    IF \E n \in 1..26 : c = UpperCase[n]
    THEN LowerCase[CHOOSE n \in 1..26 : c = UpperCase[n]]
    ELSE c

\* str.lower()
Lower(text) == [n \in 1..Len(text) |-> ToLower(text[n])]

RECURSIVE SkipSeps(_)
\* the text behind a run of [-\s]
SkipSeps(text) ==
    IF text # <<>> /\ IsSep(Head(text)) THEN SkipSeps(Tail(text)) ELSE text

RECURSIVE Collapse(_)
\* re.sub(r'[-\s]+', '-', text)
Collapse(text) ==
    IF text = <<>> THEN <<>>
    ELSE IF IsSep(Head(text)) THEN <<"-">> \o Collapse(SkipSeps(text))
    ELSE <<Head(text)>> \o Collapse(Tail(text))

\* the two substitutions of slugify
Slugged(text) == Collapse(Lower(Strip(RemoveOthers(text))))

EventToken == <<"e", "v", "e", "n", "t">>

\* slugify of src/archive/appv3_gpt.py: text or "event"
SlugifyRich(text) == IF Slugged(text) # <<>> THEN Slugged(text) ELSE EventToken

\* slugify of src/app.py: the text as it is
SlugifyWeb(text) == Slugged(text)

\* slugify(v) of a value: re.sub raises TypeError for a value that is no string
SlugifyValue(v) == IF v.t = "str" THEN Ok(SlugifyRich(v.s)) ELSE Raise("TypeError")

(***************************************************************************)
(* group_events_by_date (src/archive/appv3_gpt.py).  A bucket is a key and *)
(* the events appended under it; the buckets are kept in the order of the  *)
(* dict.                                                                   *)
(***************************************************************************)
UnknownDate == [k |-> "unknown-date"]

\* date_parser(ev["start_time"]).date().isoformat(), or "unknown-date" when
\* any exception is raised
KeyOf(ev, today) ==
    LET r == ParseField(ev, "start_time", today)
    IN  IF r.ok THEN DateOnly(r.v.year, r.v.month, r.v.day) ELSE UnknownDate

\* AppendTo with buckets[key] = [ev] in place of buckets[key].append(ev)
AppendTo_Replaces(buckets, key, ev) ==
    IF \E n \in 1..Len(buckets) : buckets[n].key = key
    THEN [n \in 1..Len(buckets) |->
            IF buckets[n].key = key
            THEN [buckets[n] EXCEPT !.items = <<ev>>]
            ELSE buckets[n]]
    ELSE Append(buckets, [key |-> key, items |-> <<ev>>])

\* buckets[key].append(ev): a new key goes behind the keys of the dict
AppendTo(buckets, key, ev) ==
    IF \E n \in 1..Len(buckets) : buckets[n].key = key
    THEN [n \in 1..Len(buckets) |->
            IF buckets[n].key = key
            THEN [buckets[n] EXCEPT !.items = Append(@, ev)]
            ELSE buckets[n]]
    ELSE Append(buckets, [key |-> key, items |-> <<ev>>])

RECURSIVE BucketsFrom(_, _, _)
\* the loop of group_events_by_date
BucketsFrom(events, buckets, today) ==
    IF events = <<>> THEN buckets
    ELSE BucketsFrom(Tail(events),
                     AppendTo(buckets, KeyOf(Head(events), today), Head(events)),
                     today)

\* a < b for two keys as strings: "YYYY-MM-DD" by its digits, and every date
\* before "unknown-date"
KeyLess(a, b) ==
    /\ a.k = "date"
    /\ b.k = "date" => DayKey(a) < DayKey(b)

RECURSIVE SortedByKey(_)
\* sorted(buckets.items(), key=lambda kv: kv[0]); the keys of a dict differ
SortedByKey(buckets) ==
    IF buckets = <<>> THEN <<>>
    ELSE LET n == CHOOSE n \in 1..Len(buckets) :
                    \A m \in 1..Len(buckets) :
                        m = n \/ KeyLess(buckets[n].key, buckets[m].key)
         IN  <<buckets[n]>>
                \o SortedByKey(SubSeq(buckets, 1, n - 1)
                                \o SubSeq(buckets, n + 1, Len(buckets)))

\* group_events_by_date(events)
GroupEventsByDate(events, today) == Ok(SortedByKey(BucketsFrom(events, <<>>, today)))

(***************************************************************************)
(* build_zip_of_individual_ics (src/archive/appv3_gpt.py).  An archive is  *)
(* the sequence of its entries, in the order of the writestr calls.        *)
(***************************************************************************)
IcsSuffix == <<".", "i", "c", "s">>

\* f"{slugify(base_name)}-{slugify(ev['title'])}.ics": KeyError for an event
\* without a title
EntryName(ev, base_name) ==
    IF ev.f["title"] = Absent THEN Raise("KeyError")
    ELSE LET t == SlugifyValue(ev.f["title"])
         IN  IF ~t.ok THEN t
             ELSE Ok(SlugifyRich(base_name) \o <<"-">> \o t.v \o IcsSuffix)

RECURSIVE ZipFrom(_, _, _, _)

\* ZipFrom that refuses to close an archive without entries
ZipFrom_NeedsAnEntry(events, base_name, zf, today) ==
    IF events = <<>> THEN (IF zf = <<>> THEN Raise("ValueError") ELSE Ok(zf))
    ELSE LET ev == Head(events)
             ics == CreateIcsForEvent(ev, today)
             fname == EntryName(ev, base_name)
         IN  IF ~fname.ok THEN fname
             ELSE ZipFrom(Tail(events), base_name,
                          Append(zf, [fname |-> fname.v, ics |-> ics]), today)

\* the loop of build_zip_of_individual_ics, zf being the entries written
ZipFrom(events, base_name, zf, today) ==
    IF events = <<>> THEN Ok(zf)
    ELSE LET ev == Head(events)
             ics == CreateIcsForEvent(ev, today)
             fname == EntryName(ev, base_name)
         IN  IF ~fname.ok THEN fname
             ELSE ZipFrom(Tail(events), base_name,
                          Append(zf, [fname |-> fname.v, ics |-> ics]), today)

\* build_zip_of_individual_ics(events, base_name)
BuildZipOfIndividualIcs(events, base_name, today) ==
    ZipFrom(events, base_name, <<>>, today)

(***************************************************************************)
(* The per-document loops (src/archive/appv3_gpt.py and src/app.py).  An   *)
(* uploaded document has a type, a name, a content that opens, is empty or *)
(* is corrupt, and the reply the model call gives for its image.  The      *)
(* outcome of one pass of the loop body is what the page shows for the     *)
(* document; stop tells that an exception left the loop body.              *)
(***************************************************************************)
\* the image of the document, or the message shown before continue
OpenDocument(doc) ==
    IF doc.type = "application/pdf"
    THEN CASE doc.content = "corrupt" -> Raise("Failed to process PDF file")
           [] doc.content = "empty" -> Raise("PDF file is empty")
           [] OTHER -> Ok("image")
    ELSE IF doc.content = "ok" THEN Ok("image") ELSE Raise("Failed to open image file")

\* a pass that ends with continue
Skipped(message) ==
    [shown |-> message, events |-> <<>>, buckets |-> <<>>, files |-> <<>>,
     combined |-> NoneHanded, zipped |-> NoneHanded, stop |-> FALSE]

\* the dict of a normalized event
AsDict(n) ==
    Obj(Str(n.title), TimeStr(n.start_time), TimeStr(n.end_time),
        Str(n.location), Str(n.description))

AsDicts(normalized) == [n \in 1..Len(normalized) |-> AsDict(normalized[n])]

\* a <= b for two start_time strings of the form %Y-%m-%dT%H:%M:%S
StartTextLeq(a, b) == ~Later(a.f["start_time"].x, b.f["start_time"].x)

RECURSIVE SortedByStartTime(_)

\* the items of a bucket shown as they are, without sorted()
SortedByStartTime_Unsorted(items) == items

\* sorted(items, key=lambda e: e["start_time"]): stable, by the string
SortedByStartTime(items) ==
    IF items = <<>> THEN <<>>
    ELSE LET n == CHOOSE n \in 1..Len(items) :
                    /\ \A m \in 1..Len(items) : StartTextLeq(items[n], items[m])
                    /\ \A m \in 1..(n - 1) : ~StartTextLeq(items[m], items[n])
         IN  <<items[n]>>
                \o SortedByStartTime(SubSeq(items, 1, n - 1)
                                      \o SubSeq(items, n + 1, Len(items)))

\* the per-event download of the richer pipeline: the file, or the error shown
DownloadRich(ev, today) ==
    IF ev.f["title"] = Absent THEN Raise("KeyError")
    ELSE LET file_name == SlugifyValue(ev.f["title"])
         IN  IF ~file_name.ok THEN file_name
             ELSE Ok([fname |-> file_name.v \o IcsSuffix,
                      ics |-> CreateIcsForEvent(ev, today)])

\* the expander of one bucket: its events by start_time, each with its download
Expander(bucket, today) ==
    LET items == SortedByStartTime(bucket.items)
    IN  [key |-> bucket.key, items |-> items,
         files |-> [n \in 1..Len(items) |-> DownloadRich(items[n], today)]]

\* date_parser(ev["start_time"]) and date_parser(ev["end_time"]) for the
\* display, outside any try
DisplayRaises(events, today) ==
    \E n \in 1..Len(events) :
        \/ ~ParseField(events[n], "start_time", today).ok
        \/ ~ParseField(events[n], "end_time", today).ok

\* one pass of the loop body of src/archive/appv3_gpt.py
ProcessRich(doc, today) ==
    LET image == OpenDocument(doc)
    IN  IF ~image.ok THEN Skipped(image.exc)
        ELSE LET events == AsDicts(GetEventsFromFlyer(doc.reply, today).v)
                 grouped == GroupEventsByDate(events, today).v
             IN  IF events = <<>> THEN Skipped("No events found for this file.")
                 ELSE IF DisplayRaises(events, today)
                 THEN [Skipped("exception") EXCEPT !.stop = TRUE]
                 ELSE [shown |-> "events",
                       events |-> events,
                       buckets |-> [n \in 1..Len(grouped) |-> Expander(grouped[n], today)],
                       files |-> <<>>,
                       combined |-> CreateIcsForMany(events, today),
                       zipped |-> BuildZipOfIndividualIcs(events, doc.name, today),
                       stop |-> FALSE]

\* event_data.get('title', f'event_{i+1}')
TitleOrNumber(event_data, i) ==
    IF event_data.f["title"] = Absent
    THEN Str(<<"e", "v", "e", "n", "t", "_", Digit(i)>>)
    ELSE event_data.f["title"]

\* the per-event download of the web app: the file, or the error shown
DownloadWeb(event_data, i, today) ==
    LET ics_content == CreateIcsFile(event_data, today)
        title == TitleOrNumber(event_data, i)
    IN  IF ~ics_content.ok THEN ics_content
        ELSE IF title.t # "str" THEN Raise("TypeError")
        ELSE Ok([fname |-> SlugifyWeb(title.s) \o IcsSuffix, ics |-> ics_content.v])

\* ProcessWeb with break in place of continue when the document does not open
ProcessWeb_Breaks(doc, today) ==
    LET image == OpenDocument(doc)
        events == GetAnthropicResponseForMultipleEvents(doc.reply).v
    IN  IF ~image.ok THEN [Skipped(image.exc) EXCEPT !.stop = TRUE]
        ELSE IF events = <<>>
        THEN Skipped("No events could be extracted from this file.")
        ELSE [Skipped("events") EXCEPT
                !.events = events,
                !.files = [i \in 1..Len(events) |-> DownloadWeb(events[i], i, today)]]

\* one pass of the loop body of src/app.py
ProcessWeb(doc, today) ==
    LET image == OpenDocument(doc)
        events == GetAnthropicResponseForMultipleEvents(doc.reply).v
    IN  IF ~image.ok THEN Skipped(image.exc)
        ELSE IF events = <<>>
        THEN Skipped("No events could be extracted from this file.")
        ELSE [Skipped("events") EXCEPT
                !.events = events,
                !.files = [i \in 1..Len(events) |-> DownloadWeb(events[i], i, today)]]

\* the two loops
Runs == {"loop of appv3_gpt.py", "loop of app.py"}

\* the outcomes so far end with an exception that left the loop
Stopped(outcomes) == outcomes # <<>> /\ outcomes[Len(outcomes)].stop

(***************************************************************************)
(* /extract-events (src/Mobile_Claude/mobile_backend_api.py).  An          *)
(* Authorization header is valid or not; a valid one carries the payload   *)
(* of a JWT: its sub and its tier, "" for a payload without a tier.        *)
(***************************************************************************)
\* free users get 3 scans per month
FreeScans == 3

\* get_current_user: the user dict holds the id and the tier and nothing else
GetCurrentUser(authorization) ==
    IF ~authorization.valid THEN Raise("HTTPException 401")
    ELSE Ok([id |-> authorization.sub,
             subscription_tier |-> IF authorization.tier = "" THEN "free"
                                   ELSE authorization.tier])

\* user.get("scan_count", 0)
ScanCount(user) == IF "scan_count" \in DOMAIN user THEN user.scan_count ELSE 0

\* check_scan_limits(user): can the user scan
CheckScanLimits(user) ==
    ~(user.subscription_tier = "free" /\ ScanCount(user) >= FreeScans)

\* one request to /extract-events: the response, or the HTTPException.  The
\* scan count of a free user is not written anywhere (the branch is a pass)
ExtractEvents(authorization, resp) ==
    LET current_user == GetCurrentUser(authorization)
    IN  IF ~current_user.ok THEN current_user
        ELSE IF ~CheckScanLimits(current_user.v) THEN Raise("HTTPException 403")
        ELSE LET events == ExtractEventsFromImage(resp)
             IN  IF ~events.ok THEN events
                 ELSE Ok([events |-> events.v, total_events |-> Len(events.v)])

(***************************************************************************)
(* The inputs of the model.                                                *)
(***************************************************************************)
T1 == DT(2025, 9, 20, 10, 0, 0)

T0 == DT(2025, 9, 20, 9, 0, 0)

TEve == DT(2025, 12, 31, 23, 0, 0)

Nows == {DT(2025, 11, 5, 14, 20, 33), DT(2024, 2, 29, 23, 30, 5)}

TitleVals ==
    {Absent, Null, Str(<<>>), Str(<<" ">>), Str(<<"F">>), Str(<<" ", "F", " ">>), Num(5)}

StartVals ==
    {Absent, Null, TimeStr(EmptyText), TimeStr(Words), TimeStr(Iso(T1)),
     TimeStr(Iso(TEve)), TimeStr(DateOnly(2025, 9, 20)), List(<<Num(1)>>)}

EndVals ==
    {Absent, Null, TimeStr(Words), TimeStr(Huge), TimeStr(Iso(T1)), TimeStr(Iso(T0))}

\* values that are not event records
NonRecords == {Null, Num(0), Num(5), Str(<<"F">>)}

Candidates ==
    {Obj(ti, TimeStr(Iso(T1)), Absent, Str(<<>>), Absent) : ti \in TitleVals}
    \cup {Obj(Str(<<"F">>), st, Absent, Str(<<" ", "F">>), Null) : st \in StartVals}
    \cup {Obj(Str(<<"F">>), TimeStr(Iso(st)), en, Absent, Str(<<"F", " ">>)) :
            st \in {T1, TEve}, en \in EndVals}
    \cup NonRecords

SeqsUpTo(S, n) == UNION {[1..m -> S] : m \in 0..n}

\* event records as create_ics_file gets them
Records == {c \in Candidates : c.t = "obj"}

\* the dates of mobile events: "September 5", "December 31", "February 30" or
\* no month and day; no number, the year 2024 or "Room 1204"; no clock,
\* "10:30:45" or "7:30 PM"
DateTexts ==
    {Free(md, num[1], num[2], clock, md = <<>> \/ (num[1] # 0 /\ ~num[2])) :
        md \in {<<9, 5>>, <<12, 31>>, <<2, 30>>, <<>>},
        num \in {<<0, FALSE>>, <<2024, TRUE>>, <<1204, FALSE>>},
        clock \in {<<>>, <<10, 30, 45>>, <<19, 30, 0>>}}

\* the times of mobile events: null, "", "7:30 PM", "8:00", "late", "25:00"
TimeTexts ==
    {Null, TimeStr(EmptyText), TimeStr(Clock(19, 30, 0)), TimeStr(Clock(8, 0, 0)),
     TimeStr(Words), TimeStr(BadClock)}

MobileEvent(date, start, end) ==
    [title |-> Str(<<"F">>), date |-> TimeStr(date), start_time |-> start,
     end_time |-> end, location |-> Str(<<>>), description |-> Str(<<>>)]

MobileEvents ==
    {MobileEvent(date, start, end) :
        date \in DateTexts, start \in TimeTexts, end \in TimeTexts}

\* the events posted in batches
BatchEvents ==
    {MobileEvent(Free(<<9, 5>>, 0, FALSE, <<>>, FALSE), Null, Null),
     MobileEvent(Free(<<2, 30>>, 0, FALSE, <<>>, FALSE), Null, Null),
     MobileEvent(Free(<<>>, 0, FALSE, <<>>, TRUE), TimeStr(BadClock), TimeStr(Words)),
     MobileEvent(Free(<<12, 31>>, 2024, TRUE, <<10, 30, 45>>, FALSE),
                 TimeStr(Clock(19, 30, 0)), TimeStr(Clock(8, 0, 0)))}

\* the event records written in response texts: two events of the richer
\* prompt, one of the mobile prompt, and a number
RichA == Obj(Str(<<"F">>), TimeStr(Iso(T1)), TimeStr(Iso(TEve)), Str(<<>>), Str(<<>>))

RichB == Obj(Str(<<"G">>), TimeStr(Iso(T0)), Absent, Absent, Absent)

NoStart == Obj(Str(<<"H">>), Null, Null, Str(<<>>), Str(<<>>))

MobA ==
    [Obj(Str(<<"F">>), TimeStr(Clock(19, 30, 0)), Null, Str(<<>>), Str(<<>>))
        EXCEPT !.f["date"] = TimeStr(Free(<<9, 5>>, 0, FALSE, <<>>, FALSE))]

TextCands == {RichA, RichB, NoStart, MobA, Num(5)}

WithEvents(f, v) == [t |-> "obj", f |-> [f EXCEPT !["events"] = v]]

\* the JSON values a response spells
Payloads ==
    {WithEvents(NoFields, List(l)) : l \in SeqsUpTo(TextCands, MaxPayload)}
    \cup {WithEvents(RichB.f, List(l)) : l \in SeqsUpTo(TextCands, MaxPayload)}
    \cup {List(l) : l \in SeqsUpTo(TextCands, MaxPayload)}
    \cup {WithEvents(NoFields, Num(5)), WithEvents(NoFields, Null), EmptyObj}
    \cup TextCands

RECURSIVE Render(_), RenderAll(_)

\* the text of a JSON value
Render(v) ==
    CASE v.t = "list" -> <<LSB>> \o RenderAll(v.l) \o <<RSB>>
      [] v.t = "obj" ->
            LET fields == [v.f EXCEPT !["events"] = Absent]
                e == IF v.f["events"] = Absent THEN <<>>
                     ELSE <<EVENTS>> \o Render(v.f["events"])
                m == IF fields = NoFields THEN <<>> ELSE <<Fields(fields)>>
            IN  <<LB>> \o e \o (IF e # <<>> /\ m # <<>> THEN <<COMMA>> ELSE <<>>)
                    \o m \o <<RB>>
      [] OTHER -> <<Scalar(v)>>

\* the texts of the elements of a list, with commas between them
RenderAll(l) ==
    IF l = <<>> THEN <<>>
    ELSE IF Len(l) = 1 THEN Render(l[1])
    ELSE Render(l[1]) \o <<COMMA>> \o RenderAll(Tail(l))

\* prose before and after the payload; prose may hold a bracket of its own
Before == {<<>>, <<W>>, <<W, LB, W>>}

After == {<<>>, <<W>>, <<W, RB, W>>}

\* text that is not JSON: "not json at all", "{not json}", "[not json]", "{"
NotJson == {<<W>>, <<LB, W, RB>>, <<LSB, W, RSB>>, <<LB, W>>}

\* the outcomes of the model call: a text around a payload, a text without
\* one, or an exception of the client
Responses ==
    {[payload |-> v, before |-> b, after |-> a,
      resp |-> Ok(b \o Render(v) \o a)] : v \in Payloads, b \in Before, a \in After}
    \cup {[payload |-> Absent, before |-> <<>>, after |-> <<>>, resp |-> Ok(x)] :
            x \in NotJson \cup {<<>>}}
    \cup {[payload |-> Absent, before |-> <<>>, after |-> <<>>,
           resp |-> Raise("APIError")]}

\* the events given to the grouping and to the calendar builders: 10:00 to
\* 12:00, 09:00 to 10:00 on the same day, one that ends before it starts,
\* one whose start is "TBD", one without an end, one without a title
EvTen ==
    Obj(Str(<<"F">>), TimeStr(Iso(T1)), TimeStr(Iso(AddHours(T1, 2))), Str(<<>>), Str(<<>>))

EvNine == Obj(Str(<<"G">>), TimeStr(Iso(T0)), TimeStr(Iso(T1)), Str(<<>>), Str(<<>>))

EvEve == Obj(Str(<<"F">>), TimeStr(Iso(TEve)), TimeStr(Iso(T1)), Str(<<>>), Str(<<>>))

EvTbd == Obj(Str(<<"f", "!">>), TimeStr(Words), TimeStr(Iso(T1)), Str(<<>>), Str(<<>>))

EvNoEnd == Obj(Str(<<"H">>), TimeStr(Iso(T1)), Absent, Str(<<>>), Str(<<>>))

EvNoTitle == Obj(Absent, TimeStr(Iso(T0)), TimeStr(Iso(T1)), Str(<<>>), Str(<<>>))

IcsEvents == {EvTen, EvNine, EvEve, EvTbd, EvNoEnd, EvNoTitle}

\* an event without the key start_time
EvNoStart == Obj(Str(<<"F">>), Absent, TimeStr(Iso(T1)), Str(<<>>), Str(<<>>))

\* the events given to the grouping
GroupedEvents == IcsEvents \cup {EvNoStart}

\* the names of uploaded files: "a" and "!"
BaseNames == {<<"a">>, <<"!">>}

BackToSchoolNight ==
    <<"B", "a", "c", "k", " ", "t", "o", " ", "S", "c", "h",
      "o", "o", "l", " ", "N", "i", "g", "h", "t", "!">>

\* the texts given to slugify
SlugTexts == SeqsUpTo({"a", "B", " ", "-", "!", "_"}, MaxText) \cup {BackToSchoolNight}

\* the reply of the model call that spells the JSON value v
Reply(v) == Ok(Render(v))

Document(type, content, reply) ==
    [type |-> type, name |-> <<"a">>, content |-> content, reply |-> reply]

\* the uploaded documents: an image with two events on one day, the later one
\* first; a PDF with an event that ends before it starts; an empty PDF, a
\* corrupt PDF, a corrupt image; an image for which the model call fails; an
\* image whose only event has no start
Documents ==
    {Document("image/png", "ok", Reply(WithEvents(NoFields, List(<<RichA, RichB>>)))),
     Document("application/pdf", "ok", Reply(List(<<EvEve>>))),
     Document("application/pdf", "empty", Reply(EmptyObj)),
     Document("application/pdf", "corrupt", Reply(EmptyObj)),
     Document("image/png", "corrupt", Reply(EmptyObj)),
     Document("image/png", "ok", Raise("APIError")),
     Document("image/png", "ok", Reply(WithEvents(NoFields, List(<<NoStart>>))))}

\* the uploads: one document or more
Uploads == SeqsUpTo(Documents, MaxDocs) \ {<<>>}

\* the Authorization headers: none, and tokens of a free user, of a user
\* whose token names no tier, and of two paying users
Authorizations ==
    {[valid |-> FALSE, sub |-> "", tier |-> ""]}
    \cup {[valid |-> TRUE, sub |-> "u", tier |-> t] :
            t \in {"free", "", "monthly", "lifetime"}}

\* the replies to the image of a request: one event, and "{not json}"
ScanReplies == {Reply(WithEvents(NoFields, List(<<MobA>>))), Ok(<<LB, W, RB>>)}

\* the responses that were received: the model call raised nothing
Received == {r \in Responses : r.resp.ok}

Idle ==
    /\ op' = "idle"
    /\ arg' = <<>>
    /\ handed' = NoneHanded
    /\ ret' = Ok(<<>>)

(***************************************************************************)
(* The calls.                                                              *)
(***************************************************************************)
Init ==
    /\ now \in Nows
    /\ op = "idle"
    /\ arg = <<>>
    /\ handed = NoneHanded
    /\ ret = Ok(<<>>)

\* a call of _normalize_and_validate_events
Normalize ==
    /\ op = "idle"
    /\ \E events \in SeqsUpTo(Candidates, MaxEvents) :
         /\ op' = "normalize"
         /\ arg' = events
         /\ handed' = Ok(events)
         /\ ret' = NormalizeAndValidateEvents(events, now)
    /\ UNCHANGED now

\* a call of get_events_from_flyer, the model call answered by r
Flyer ==
    /\ op = "idle"
    /\ \E r \in Responses :
         /\ op' = "get_events_from_flyer"
         /\ arg' = r
         /\ handed' = FlyerHanded(r.resp)
         /\ ret' = GetEventsFromFlyer(r.resp, now)
    /\ UNCHANGED now

\* a call of get_anthropic_response_for_multiple_events
Web ==
    /\ op = "idle"
    /\ \E r \in Responses :
         /\ op' = "get_anthropic_response_for_multiple_events"
         /\ arg' = r
         /\ handed' = NoneHanded
         /\ ret' = GetAnthropicResponseForMultipleEvents(r.resp)
    /\ UNCHANGED now

\* a call of extract_events_from_image
Extract ==
    /\ op = "idle"
    /\ \E r \in Responses :
         /\ op' = "extract_events_from_image"
         /\ arg' = r
         /\ handed' = NoneHanded
         /\ ret' = ExtractEventsFromImage(r.resp)
    /\ UNCHANGED now

\* a call of create_ics_file
IcsFile ==
    /\ op = "idle"
    /\ \E event_data \in Records :
         /\ op' = "create_ics_file"
         /\ arg' = event_data
         /\ handed' = NoneHanded
         /\ ret' = CreateIcsFile(event_data, now)
    /\ UNCHANGED now

\* a call of parse_event_datetime
ParseDatetime ==
    /\ op = "idle"
    /\ \E event \in MobileEvents :
         /\ op' = "parse_event_datetime"
         /\ arg' = event
         /\ handed' = NoneHanded
         /\ ret' = ParseEventDatetime(event, now)
    /\ UNCHANGED now

\* a request to /events/format-for-calendar
Format ==
    /\ op = "idle"
    /\ \E events \in SeqsUpTo(BatchEvents, MaxBatch) :
         /\ op' = "format_for_calendar"
         /\ arg' = events
         /\ handed' = NoneHanded
         /\ ret' = FormatForCalendar(events, now)
    /\ UNCHANGED now

\* a call of group_events_by_date
Group ==
    /\ op = "idle"
    /\ \E events \in SeqsUpTo(GroupedEvents, MaxList) :
         /\ op' = "group_events_by_date"
         /\ arg' = events
         /\ handed' = NoneHanded
         /\ ret' = GroupEventsByDate(events, now)
    /\ UNCHANGED now

\* a call of create_ics_for_many
Many ==
    /\ op = "idle"
    /\ \E events \in SeqsUpTo(IcsEvents, MaxList) :
         /\ op' = "create_ics_for_many"
         /\ arg' = events
         /\ handed' = NoneHanded
         /\ ret' = CreateIcsForMany(events, now)
    /\ UNCHANGED now

\* a call of build_zip_of_individual_ics
Zip ==
    /\ op = "idle"
    /\ \E events \in SeqsUpTo(IcsEvents, MaxList), base_name \in BaseNames :
         /\ op' = "build_zip_of_individual_ics"
         /\ arg' = [events |-> events, base_name |-> base_name]
         /\ handed' = NoneHanded
         /\ ret' = BuildZipOfIndividualIcs(events, base_name, now)
    /\ UNCHANGED now

\* a call of slugify of src/archive/appv3_gpt.py
SlugRich ==
    /\ op = "idle"
    /\ \E text \in SlugTexts :
         /\ op' = "appv3_gpt.slugify"
         /\ arg' = text
         /\ handed' = NoneHanded
         /\ ret' = Ok(SlugifyRich(text))
    /\ UNCHANGED now

\* a call of slugify of src/app.py
SlugWeb ==
    /\ op = "idle"
    /\ \E text \in SlugTexts :
         /\ op' = "app.slugify"
         /\ arg' = text
         /\ handed' = NoneHanded
         /\ ret' = Ok(SlugifyWeb(text))
    /\ UNCHANGED now

\* a call of _extract_json_block on the text of a response
JsonBlock ==
    /\ op = "idle"
    /\ \E r \in Received :
         /\ op' = "_extract_json_block"
         /\ arg' = r
         /\ handed' = NoneHanded
         /\ ret' = ExtractJsonBlock(r.resp.v)
    /\ UNCHANGED now

\* the search for a JSON array in get_anthropic_response_for_multiple_events
ArrayMatch ==
    /\ op = "idle"
    /\ \E r \in Received :
         /\ op' = "json_match of app.py"
         /\ arg' = r
         /\ handed' = NoneHanded
         /\ ret' = ReSearch(r.resp.v, LSB, RSB)
    /\ UNCHANGED now

\* the search for a JSON object in extract_events_from_image
ObjectMatch ==
    /\ op = "idle"
    /\ \E r \in Received :
         /\ op' = "json_match of mobile_backend_api.py"
         /\ arg' = r
         /\ handed' = NoneHanded
         /\ ret' = ReSearch(r.resp.v, LB, RB)
    /\ UNCHANGED now

\* a request to /extract-events, the first of a client or its next one; ret
\* holds the outcomes of the requests of the client so far
Scan ==
    /\ op \in {"idle", "/extract-events"}
    /\ \E authorization \in Authorizations, resp \in ScanReplies :
         LET before == IF op = "idle" THEN <<>> ELSE ret.v
         IN  /\ op = "/extract-events" => arg = authorization
             /\ Len(before) < MaxRequests
             /\ op' = "/extract-events"
             /\ arg' = authorization
             /\ handed' = NoneHanded
             /\ ret' = Ok(Append(before, ExtractEvents(authorization, resp)))
    /\ UNCHANGED now

\* the page of the richer pipeline is run for an upload
RunRich ==
    /\ op = "idle"
    /\ \E uploaded_files \in Uploads :
         /\ op' = "loop of appv3_gpt.py"
         /\ arg' = uploaded_files
         /\ handed' = NoneHanded
         /\ ret' = Ok(<<>>)
    /\ UNCHANGED now

\* one pass of the loop of the richer pipeline, for the next document
StepRich ==
    /\ op = "loop of appv3_gpt.py"
    /\ Len(ret.v) < Len(arg)
    /\ ~Stopped(ret.v)
    /\ ret' = Ok(Append(ret.v, ProcessRich(arg[Len(ret.v) + 1], now)))
    /\ UNCHANGED <<now, op, arg, handed>>

\* the page of the web app is run for an upload
RunWeb ==
    /\ op = "idle"
    /\ \E uploaded_files \in Uploads :
         /\ op' = "loop of app.py"
         /\ arg' = uploaded_files
         /\ handed' = NoneHanded
         /\ ret' = Ok(<<>>)
    /\ UNCHANGED now

\* one pass of the loop of the web app, for the next document
StepWeb ==
    /\ op = "loop of app.py"
    /\ Len(ret.v) < Len(arg)
    /\ ~Stopped(ret.v)
    /\ ret' = Ok(Append(ret.v, ProcessWeb(arg[Len(ret.v) + 1], now)))
    /\ UNCHANGED <<now, op, arg, handed>>

\* the caller takes the outcome; the next call starts from the same clock.  A
\* run of a page ends behind its last document, or with the exception that
\* left its loop
Return ==
    /\ op # "idle"
    /\ op \in Runs => (Len(ret.v) = Len(arg) \/ Stopped(ret.v))
    /\ Idle
    /\ UNCHANGED now

Next ==
    \/ Normalize
    \/ Flyer
    \/ Web
    \/ Extract
    \/ ParseDatetime
    \/ Format
    \/ IcsFile
    \/ Group
    \/ Many
    \/ Zip
    \/ SlugRich
    \/ SlugWeb
    \/ JsonBlock
    \/ ArrayMatch
    \/ ObjectMatch
    \/ Scan
    \/ RunRich
    \/ StepRich
    \/ RunWeb
    \/ StepWeb
    \/ Return

Spec == Init /\ [][Next]_vars

(***************************************************************************)
(* What the claims speak of.                                               *)
(***************************************************************************)
Extractors ==
    {"get_events_from_flyer", "get_anthropic_response_for_multiple_events",
     "extract_events_from_image"}

\* a response that was received and spells no JSON value
NoPayload(r) == r.resp.ok /\ r.payload = Absent

\* a value is given for the key: not missing, not null, not ""
Present(ev, key) == ev.f[key] \notin {Absent, Null, TimeStr(EmptyText), Str(<<>>)}

\* the start_time of a candidate is present and parses to a timestamp
StartParses(c) ==
    /\ c.t = "obj"
    /\ Present(c, "start_time")
    /\ ParseStrOf(c.f["start_time"], now).ok

\* the end_time of a candidate is present and parses to a timestamp
EndParses(c) == Present(c, "end_time") /\ ParseStrOf(c.f["end_time"], now).ok

\* an event record with a string for every key it has and a start that parses
WellFormed(c) ==
    /\ StartParses(c)
    /\ \A key \in Keys : c.f[key] = Absent \/ IsString(c.f[key])

\* the record that the normalization of the candidate alone gives
Alone(c) == NormalizeAndValidateEvents(<<c>>, now).v[1]

\* the candidates of the call that have a start
Kept == SelectSeq(arg, StartParses)

\* the title of a candidate is absent, null, empty or only whitespace
BlankTitle(c) ==
    \/ c.f["title"] \in {Absent, Null}
    \/ c.f["title"].t = "str" /\ \A n \in 1..Len(c.f["title"].s) : c.f["title"].s[n] = " "

\* C1: a response text that holds no JSON payload, or a bracketed substring
\* that is not well-formed JSON, gives an empty event list in each of the three
\* pipelines and never an error
C1_NoPayloadGivesEmptyList ==
    (op \in Extractors /\ NoPayload(arg)) => (ret.ok /\ ret.v = <<>>)

\* C2: normalization completes for every candidate list, and every well-formed
\* candidate with a parseable start_time is in the output, whatever malformed
\* elements the list holds beside it: one bad record never loses the batch
C2_OneBadRecordNeverLosesTheBatch ==
    /\ op = "normalize" =>
         /\ ret.ok
         /\ \A n \in 1..Len(arg) :
              WellFormed(arg[n]) => \E m \in 1..Len(ret.v) : ret.v[m] = Alone(arg[n])
    /\ (op = "get_events_from_flyer" /\ handed.ok) =>
         \A n \in 1..Len(handed.v) :
            WellFormed(handed.v[n]) =>
                \E m \in 1..Len(ret.v) : ret.v[m] = Alone(handed.v[n])

\* C3: the output of the normalizer holds a candidate if and only if its
\* start_time is present and parses: the output is as long as the list of the
\* candidates with a start, and the record of each of them is the one it gets
\* alone, whatever candidates were dropped around it
C3_KeptIffStartParses ==
    (op = "normalize" /\ ret.ok) =>
        /\ Len(ret.v) = Len(Kept)
        /\ \A m \in 1..Len(Kept) : ret.v[m] = Alone(Kept[m])

\* a call that kept one candidate and dropped one whose start_time is no date
C3_Witness ==
    /\ op = "normalize"
    /\ ret.ok
    /\ Len(arg) = 2
    /\ Len(ret.v) = 1
    /\ \E n \in 1..2 : arg[n].t = "obj" /\ arg[n].f["start_time"] = TimeStr(Words)

\* C4: every emitted event has a non-empty title: "Untitled Event" for a title
\* that is absent, null, empty or only whitespace, the trimmed title otherwise
C4_TitleNeverEmpty ==
    (op = "normalize" /\ ret.ok) =>
        \A m \in 1..Len(Kept) :
            /\ ret.v[m].title # <<>>
            /\ BlankTitle(Kept[m]) => ret.v[m].title = UntitledEvent
            /\ ~BlankTitle(Kept[m]) => ret.v[m].title = StrStrip(Kept[m].f["title"])

\* the end time of a mobile event is missing or is no time of day
NoMobileTime(v) == v \in {Null, TimeStr(EmptyText), TimeStr(Words), TimeStr(BadClock)}

\* C5: an end time that is absent or unparseable resolves to the start plus the
\* fixed offset (2 hours in the normalizer and in create_ics_file, 1 hour in
\* parse_event_datetime); an end time that parses is used as given
C5_DefaultEndIsStartPlusOffset ==
    /\ (op = "normalize" /\ ret.ok) =>
         \A m \in 1..Len(Kept) :
            ret.v[m].end_time =
                IF EndParses(Kept[m])
                THEN Strftime(ParseStrOf(Kept[m].f["end_time"], now).v)
                ELSE Strftime(AddHours(ret.v[m].start_time, 2))
    /\ op = "create_ics_file" =>
         /\ ret.ok
         /\ ret.v.end =
                IF DateParser(arg.f["end_time"], now).ok
                THEN DateParser(arg.f["end_time"], now).v
                ELSE AddHours(ret.v.begin, 2)
    /\ (op = "parse_event_datetime" /\ MobileDate(arg, now).ok) =>
         ret.v[2] =
             IF NoMobileTime(arg.end_time)
             THEN Strftime(AddHours(ret.v[1], 1))
             ELSE Strftime(FuzzyDateTime(MobileDate(arg, now).v, arg.end_time.x).v)

\* prose that holds no bracket
PlainProse(r) == r.before \in {<<>>, <<W>>} /\ r.after \in {<<>>, <<W>>}

\* the candidate list of a payload: the list under "events", the elements of
\* a bare array, or the bare object as the only candidate
CandidatesOf(v) ==
    IF v.t = "obj" /\ v.f["events"] # Absent /\ v.f["events"].t = "list"
    THEN v.f["events"].l
    ELSE IF v.t = "list" THEN v.l
    ELSE <<v>>

\* the list the normalizer got from the call; nothing handed is no candidate
HandedList == IF handed.ok THEN handed.v ELSE <<>>

\* every candidate of the payload is an event object
EventObjects(v) == \A n \in 1..Len(CandidatesOf(v)) : CandidatesOf(v)[n].t = "obj"

\* C6: get_events_from_flyer takes an object with a list under "events", a bare
\* array of event objects and a bare object from the text of the model, and
\* hands the normalizer the list under "events", the elements of the array, or
\* the object as the only candidate; "events" wins over the single object
C6_ThreePayloadShapes ==
    (/\ op = "get_events_from_flyer"
     /\ arg.resp.ok
     /\ arg.payload # Absent
     /\ arg.payload.t \in {"obj", "list"}
     /\ EventObjects(arg.payload)
     /\ PlainProse(arg)) => HandedList = CandidatesOf(arg.payload)

\* C7: every canonical event ends after it starts: end > start for every event
\* of the normalizer and for every pair of parse_event_datetime
C7_EndAfterStart ==
    /\ (op = "normalize" /\ ret.ok) =>
         \A m \in 1..Len(ret.v) : Later(ret.v[m].end_time, ret.v[m].start_time)
    /\ op = "parse_event_datetime" => Later(ret.v[2], ret.v[1])

\* the start time of a mobile event is missing or is no time of day
NoStartTime(event) == NoMobileTime(event.start_time)

\* C8: a mobile event without a start time, or with one that does not parse,
\* starts on the resolved date at exactly 09:00:00
C8_DefaultStartIsNineSharp ==
    (op = "parse_event_datetime" /\ NoStartTime(arg) /\ MobileDate(arg, now).ok) =>
        /\ ret.v[1].year = MobileDate(arg, now).v.year
        /\ ret.v[1].month = MobileDate(arg, now).v.month
        /\ ret.v[1].day = MobileDate(arg, now).v.day
        /\ ret.v[1].hour = 9
        /\ ret.v[1].minute = 0
        /\ ret.v[1].second = 0

\* the date text holds a year
HasYear(date_str) == date_str.num # 0 /\ date_str.year

\* the date text holds a month and a day that exist
HasDay(date_str) == date_str.md # <<>> /\ date_str.md[2] <= DaysInMonth(2024, date_str.md[1])

\* C9: the current year is put behind the date text if and only if the text
\* holds no year; a text with a year resolves to that year, and a text without
\* one resolves to its month and day in the current year, whatever other
\* digits it holds
C9_CurrentYearIffNoYear ==
    op = "parse_event_datetime" =>
        /\ AppendedYear(arg.date.x, now) = (IF HasYear(arg.date.x) THEN 0 ELSE now.year)
        /\ HasDay(arg.date.x) =>
             /\ ret.v[1].year = (IF HasYear(arg.date.x) THEN arg.date.x.num ELSE now.year)
             /\ ret.v[1].month = arg.date.x.md[1]
             /\ ret.v[1].day = arg.date.x.md[2]

\* the date of the event does not parse
DateFails(event) == ~MobileDate(event, now).ok

KeptAt == {n \in 1..Len(arg) : StartParses(arg[n])}

\* C11: the output of the normalizer keeps the order of its input: there is a
\* strictly increasing map from the emitted events onto the positions of the
\* kept candidates, each emitted event being the normalization of the
\* candidate at its position; nothing is reordered and nothing is emitted twice
C11_OutputKeepsInputOrder ==
    (op = "normalize" /\ ret.ok) =>
        \E at \in [1..Len(ret.v) -> 1..Len(arg)] :
            /\ \A m \in 1..Len(ret.v) : \A k \in 1..Len(ret.v) : m < k => at[m] < at[k]
            /\ {at[m] : m \in 1..Len(ret.v)} = KeptAt
            /\ \A m \in 1..Len(ret.v) : ret.v[m] = Alone(arg[at[m]])

\* a call that kept two candidates with different normalizations
C11_Witness ==
    /\ op = "normalize"
    /\ ret.ok
    /\ Len(ret.v) = 2
    /\ ret.v[1] # ret.v[2]
    /\ ret.v[1] = Alone(arg[1])

\* the start_time and the end_time of an event both parse
BothParse(ev) ==
    ParseField(ev, "start_time", now).ok /\ ParseField(ev, "end_time", now).ok

\* both parse and the end is not before the start
EndNotBeforeStart(ev) ==
    /\ BothParse(ev)
    /\ ~Later(ParseField(ev, "start_time", now).v, ParseField(ev, "end_time", now).v)

\* the event block of an event whose times parse
BlockOf(ev) ==
    [name |-> NameOf(ev),
     begin |-> ParseField(ev, "start_time", now).v,
     end |-> ParseField(ev, "end_time", now).v]

\* the blocks of the events of a list that satisfy Test, in input order
BlocksOf(events, Test(_)) ==
    [m \in 1..Len(SelectSeq(events, Test)) |-> BlockOf(SelectSeq(events, Test)[m])]

Buildable(ev) == EndNotBeforeStart(ev) /\ ev.f["title"] # Absent /\ ev.f["title"].t = "str"

\* the events of the call that can be built
BuildableEvents == SelectSeq(arg.events, Buildable)

\* C14: build_zip_of_individual_ics never fails as a whole: it skips each event
\* that cannot be built into a calendar file (times that do not parse, no
\* title) and returns an archive with exactly one entry, holding the parsed
\* times, for every other event
C14_UnbuildableEventIsSkipped ==
    (op = "build_zip_of_individual_ics" /\ BuildableEvents # <<>>) =>
        /\ ret.ok
        /\ Len(ret.v) = Len(BuildableEvents)
        /\ \A m \in 1..Len(BuildableEvents) : ret.v[m].ics = BlockOf(BuildableEvents[m])

\* the name slugify(base_name) + "-" + slugify(title) + ".ics"
NameByRule(ev, base_name) ==
    SlugifyRich(base_name) \o <<"-">> \o SlugifyRich(ev.f["title"].s) \o IcsSuffix

\* every event of the list has a title
AllTitled(events) ==
    \A n \in 1..Len(events) : events[n].f["title"] # Absent /\ events[n].f["title"].t = "str"

\* C15: for a list of events with titles the archive has one entry per event,
\* named slugify(base_name) + "-" + slugify(title) + ".ics", and no two entries
\* have the same name, so that extracting the archive gives one file per event
C15_OneExtractableEntryPerEvent ==
    (op = "build_zip_of_individual_ics" /\ AllTitled(arg.events)) =>
        /\ ret.ok
        /\ Len(ret.v) = Len(arg.events)
        /\ \A n \in 1..Len(ret.v) : ret.v[n].fname = NameByRule(arg.events[n], arg.base_name)
        /\ \A n \in 1..Len(ret.v) : \A m \in 1..Len(ret.v) :
              ret.v[n].fname = ret.v[m].fname => n = m

\* C16: on an empty event list create_ics_for_many returns a calendar with no
\* event block and build_zip_of_individual_ics returns an archive with no
\* entry; neither raises
C16_EmptyListGivesEmptyContainers ==
    /\ (op = "create_ics_for_many" /\ arg = <<>>) => ret = Ok(<<>>)
    /\ (op = "build_zip_of_individual_ics" /\ arg.events = <<>>) => ret = Ok(<<>>)

\* the archive of no events was built
C16_Witness ==
    /\ op = "build_zip_of_individual_ics"
    /\ arg.events = <<>>
    /\ ret.ok
    /\ ret.v = <<>>

\* the text of the slugging rule for a text: what is left of it, or "event"
SlugByRule(text) == IF Slugged(text) = <<>> THEN EventToken ELSE Slugged(text)

\* a character a slug may hold: a word character that is no capital, or "-"
SlugChar(c) == (IsWord(c) /\ ToLower(c) = c) \/ c = "-"

\* C17: slugify of the richer pipeline and of the web app never returns the
\* empty string: it returns the text without the characters that are no word
\* character, whitespace or hyphen, trimmed, in lower case, each run of
\* whitespace and hyphens as one hyphen, and "event" when nothing is left;
\* "Back to School Night!" gives "back-to-school-night"
C17_SlugifyNeverEmpty ==
    op \in {"appv3_gpt.slugify", "app.slugify"} =>
        /\ ret.v # <<>>
        /\ ret.v = SlugByRule(arg)
        /\ \A n \in 1..Len(ret.v) : SlugChar(ret.v[n])
        /\ \A n \in 1..(Len(ret.v) - 1) : ~(ret.v[n] = "-" /\ ret.v[n + 1] = "-")
        /\ arg = BackToSchoolNight =>
             ret.v = <<"b", "a", "c", "k", "-", "t", "o", "-", "s", "c",
                       "h", "o", "o", "l", "-", "n", "i", "g", "h", "t">>

\* the searches for a payload, and the brackets each of them looks for
Searches ==
    {"_extract_json_block", "json_match of app.py", "json_match of mobile_backend_api.py"}

OpenOf(o) == IF o = "json_match of app.py" THEN LSB ELSE LB

CloseOf(o) == IF o = "json_match of app.py" THEN RSB ELSE RB

\* the text from its first opening bracket to its last closing bracket
FirstToLast(text, open, close) ==
    SubSeq(text, Min(Positions(text, open)), Max(Positions(text, close)))

\* a closing bracket stands behind the first opening bracket of the text
ClosedBehind(text, open, close) ==
    /\ Positions(text, open) # {}
    /\ Positions(text, close) # {}
    /\ Min(Positions(text, open)) < Max(Positions(text, close))

\* prose, then the object {"events": [RichA]}, then prose
EmbeddedExample(r) ==
    /\ r.payload = WithEvents(NoFields, List(<<RichA>>))
    /\ r.before = <<W>>
    /\ r.after = <<W>>

\* the embedded object is isolated and normalization gives its one event
ExampleIsolated ==
    /\ (op = "_extract_json_block" /\ EmbeddedExample(arg)) =>
         (ret.ok /\ ret.v = Render(arg.payload))
    /\ (op = "get_events_from_flyer" /\ EmbeddedExample(arg)) =>
         /\ ret.ok
         /\ Len(ret.v) = 1
         /\ ret.v[1].title = <<"F">>
         /\ ret.v[1].start_time = Iso(T1)

\* C18, as stated: the search returns the text from the first opening bracket
\* of its kind to the last closing bracket of that kind, and finds no payload
\* exactly when the text holds no opening bracket of that kind; an object
\* between two runs of prose is isolated
C18_NoPayloadIffNoOpeningBracket ==
    /\ op \in Searches =>
         /\ ~ret.ok <=> Positions(arg.resp.v, OpenOf(op)) = {}
         /\ ret.ok => ret.v = FirstToLast(arg.resp.v, OpenOf(op), CloseOf(op))
    /\ ExampleIsolated

\* C18, amended: the search finds no payload exactly when no closing bracket
\* of its kind stands behind the first opening bracket of the text, and
\* returns the text from the first opening bracket to the last closing bracket
\* otherwise; an object between two runs of prose is isolated
C18_FirstOpeningToLastClosing ==
    /\ op \in Searches =>
         /\ ret.ok <=> ClosedBehind(arg.resp.v, OpenOf(op), CloseOf(op))
         /\ ret.ok => ret.v = FirstToLast(arg.resp.v, OpenOf(op), CloseOf(op))
    /\ ExampleIsolated

\* a payload between prose with a brace of its own on each side: the block
\* runs from the brace of the prose before to the brace of the prose after
C18_Witness ==
    /\ op = "_extract_json_block"
    /\ arg.payload # Absent
    /\ arg.before = <<W, LB, W>>
    /\ arg.after = <<W, RB, W>>
    /\ ret.ok
    /\ Len(ret.v) = Len(Render(arg.payload)) + 4

\* what the page shows for a document that is uploaded alone
ShownAlone(loop, doc) ==
    IF loop = "loop of appv3_gpt.py" THEN ProcessRich(doc, now) ELSE ProcessWeb(doc, now)

\* the document failed: it did not open, or no event was shown for it
Failed(outcome) == outcome.events = <<>>

\* the last document of the upload has had its pass
LoopFinished == op \in Runs /\ Len(ret.v) = Len(arg)

KeysAscend(buckets) ==
    \A n \in 1..Len(buckets) : \A m \in 1..Len(buckets) :
        n < m => KeyLess(buckets[n].key, buckets[m].key)

\* the events of a bucket with a date are in the order of their starts
StartsAscend(bucket) ==
    bucket.key # UnknownDate =>
        \A n \in 1..Len(bucket.items) : \A m \in 1..Len(bucket.items) :
            n < m => ~Later(ParseField(bucket.items[n], "start_time", now).v,
                            ParseField(bucket.items[m], "start_time", now).v)

\* the events of the list that have the key, in the order of the list
WithKey(events, key) == SelectSeq(events, LAMBDA ev : KeyOf(ev, now) = key)

Scanned(outcome) == outcome.ok \/ outcome.exc = "HTTPException 500"

\* the number of the first n requests of the client that reached image processing
ScansIn(outcomes, n) == Cardinality({m \in 1..n : Scanned(outcomes[m])})

\* the client is a free user
FreeUser(authorization) == authorization.valid /\ authorization.tier \in {"free", ""}

\* C20: of the requests of a free user to /extract-events at most 3 reach image
\* processing; each request behind the third scan is rejected with HTTP 403;
\* a user of another tier is never rejected by the limit
C20_FreeUserScansThreeTimes ==
    op = "/extract-events" =>
        /\ FreeUser(arg) =>
             /\ ScansIn(ret.v, Len(ret.v)) <= FreeScans
             /\ \A n \in 1..Len(ret.v) :
                  ScansIn(ret.v, n - 1) >= FreeScans => ret.v[n] = Raise("HTTPException 403")
        /\ (arg.valid /\ ~FreeUser(arg)) =>
             \A n \in 1..Len(ret.v) : ret.v[n] # Raise("HTTPException 403")

\* the list returned by a call, given to _normalize_and_validate_events again
NormalizedAgain(normalized) == NormalizeAndValidateEvents(AsDicts(normalized), now)

\* C21: normalization is idempotent on its own output: the list returned by
\* _normalize_and_validate_events, normalized again, is returned record for
\* record (same length, same order, same title, start_time, end_time,
\* location and description)
C21_NormalizationIsIdempotent ==
    (op = "normalize" /\ ret.ok) => NormalizedAgain(ret.v) = Ok(ret.v)

\* the places of the buckets: <<b, i>> is item i of bucket b
Slots(buckets) ==
    UNION {{<<b, i>> : i \in 1..Len(buckets[b].items)} : b \in 1..Len(buckets)}

\* how often the event stands in the buckets, and in the input list
TimesInBuckets(buckets, ev) ==
    Cardinality({p \in Slots(buckets) : buckets[p[1]].items[p[2]] = ev})

TimesInList(events, ev) == Cardinality({n \in 1..Len(events) : events[n] = ev})

\* the key the contract gives an event: the date of its start when the start
\* is a text that parses, "unknown-date" when it is missing or does not parse
DateByRule(ev) ==
    LET start == ev.f["start_time"]
    IN  IF start # Absent /\ start.t = "time" /\ ParseText(start.x, now).ok
        THEN LET dt == ParseText(start.x, now).v
             IN  DateOnly(dt.year, dt.month, dt.day)
        ELSE UnknownDate

\* C22: group_events_by_date is a partition of its input: the call returns,
\* the bucket sizes sum to the input length, every input event stands in the
\* buckets as often as in the input, no bucket is empty, no key names two
\* buckets, an event with a parseable start_time is in the bucket of the date
\* of that start, and an event whose start_time is missing or unparseable is
\* in the "unknown-date" bucket
C22_GroupingIsAPartition ==
    op = "group_events_by_date" =>
        /\ ret.ok
        /\ Cardinality(Slots(ret.v)) = Len(arg)
        /\ \A n \in 1..Len(arg) :
             TimesInBuckets(ret.v, arg[n]) = TimesInList(arg, arg[n])
        /\ \A b \in 1..Len(ret.v) : ret.v[b].items # <<>>
        /\ \A b \in 1..Len(ret.v) : \A c \in 1..Len(ret.v) :
             ret.v[b].key = ret.v[c].key => b = c
        /\ \A p \in Slots(ret.v) :
             ret.v[p[1]].key = DateByRule(ret.v[p[1]].items[p[2]])

\* a list of three is grouped: an event without start_time and one whose
\* start is "TBD" share the "unknown-date" bucket, behind the bucket of the
\* date of the third
C22_Witness ==
    /\ op = "group_events_by_date"
    /\ Len(arg) = 3
    /\ \E n \in 1..3 : arg[n].f["start_time"] = Absent
    /\ \E n \in 1..3 : arg[n].f["start_time"] = TimeStr(Words)
    /\ Len(ret.v) = 2
    /\ ret.v[1].key.k = "date"
    /\ Len(ret.v[1].items) = 1
    /\ ret.v[2].key = UnknownDate
    /\ Len(ret.v[2].items) = 2

====
